---- MODULE Spec2Model ----
(***************************************************************************)
(* Model of the mt5 template: the databuilder (databuilder.py), the        *)
(* training entry point (train.py) and the training step (trainer.py).     *)
(* Text is a sequence of one-character strings, so that slicing, suffix    *)
(* comparison and replacement are computed character by character.  A      *)
(* loss is a binary floating-point number with a Precision-bit mantissa,   *)
(* so that division and mean round as tensor arithmetic does.              *)
(***************************************************************************)
EXTENDS Integers, Sequences, FiniteSets, TLC

VARIABLES
    \* ---- one row going through the Databuilder callbacks ----
    row,            \* the row being mapped: [source_text, target_text]
    row_in,         \* the row as it was read (history)
    row_eos,        \* the row after the first _add_eos (history), or row_in
    row_sub,        \* the row handed to _replace_special_tokens (history)
    hl_token,       \* highlight_token
    sep_token,      \* separation_token
    stage,          \* "idle" | "raw" | "eos" | "sub"
    eos_runs        \* how many times _add_eos was mapped over the row

row_vars == <<row, row_in, row_eos, row_sub, hl_token, sep_token, stage, eos_runs>>

VARIABLES
    \* ---- one batch going through Databuilder.preprocess / _to_features ----
    source_max_length,  \* source_max_length
    target_max_length,  \* target_max_length
    batch,              \* the rows of the dataset (one batch), in order
    batch_in,           \* the rows handed to _to_features (history)
    encodings,          \* what _to_features returned, or NoValue
    bstage              \* "idle" | "raw" | "encoded"

batch_vars == <<source_max_length, target_max_length, batch, batch_in,
                encodings, bstage>>

VARIABLES
    \* ---- one run of databuilder.main ----
    pc,                 \* where main is
    train_csv,          \* the file at train_csv_path: [columns, rows]
    valid_csv,          \* the file at valid_csv_path: [columns, rows]
    train_file_path,    \* db_args.train_file_path
    valid_file_path,    \* db_args.valid_file_path
    train_df,           \* the training dataframe, or NoValue
    valid_df,           \* the validation dataframe, or NoValue
    train_dataset,      \* the training Dataset, or NoValue
    valid_dataset,      \* the validation Dataset, or NoValue
    added_tokens,       \* what tokenizer.add_tokens added to the vocabulary
    preprocess_calls,   \* calls of preprocessor.preprocess so far
    files               \* the files written: path -> content

main_vars == <<pc, train_csv, valid_csv, train_file_path, valid_file_path,
               train_df, valid_df, train_dataset, valid_dataset, added_tokens,
               preprocess_calls, files>>

VARIABLES
    \* ---- a Trainer and the external loop driving its _training_step ----
    trainer,            \* self: label_smoothing and the fields of self.args
    loss_scale_exp,     \* the amp loss scale is 2^loss_scale_exp
    tstage,             \* "idle" | "training" | "aborted"
    last_call,          \* what the last _training_step did, or NoValue
    step_calls,         \* calls of _training_step so far
    backward_calls,     \* calls of backward so far
    optimizer_steps,    \* calls of optimizer.step so far
    zero_grads,         \* calls of zero_grad so far
    micro_steps,        \* steps since the last optimizer step
    window_same,        \* whether those steps all got the same batch
    window_sum          \* the exact sum of what they returned, or NoValue

train_vars == <<trainer, loss_scale_exp, tstage, last_call, step_calls,
                backward_calls, optimizer_steps, zero_grads, micro_steps,
                window_same, window_sum>>

vars == <<row_vars, batch_vars, main_vars, train_vars>>

\* the absent value
NoValue == [none |-> TRUE]

(***************************************************************************)
(* Bounds of the model.                                                    *)
(***************************************************************************)
\* a batch, and a csv file, holds at most this many rows
MaxRows == 2
\* source_max_length and target_max_length range over 1..MaxLength
MaxLength == 3
\* a row is built from at most this many pieces (both fields together)
MaxPieces == 3
\* _add_eos is mapped over a row at most this many times
MaxRuns == 2
\* n_gpu ranges over 1..MaxReplicas
MaxReplicas == 2
\* gradient_accumulation_steps ranges over 1..MaxAccum
MaxAccum == 3
\* a per-replica loss is one of 1..MaxLoss
MaxLoss == 2
\* the external loop calls _training_step at most this many times
MaxSteps == 3
\* the number of mantissa bits of a loss
Precision == 4

(***************************************************************************)
(* Text.                                                                   *)
(***************************************************************************)
\* the end-of-sequence marker '</s>'
EOS == <<"<", "/", "s", ">">>
\* the appended ' </s>'
SP_EOS == <<" ">> \o EOS
\* the placeholder '{hl_token}'
HL_PLACEHOLDER == <<"{", "h", "l", "_", "t", "o", "k", "e", "n", "}">>
\* the placeholder '{sep_token}'
SEP_PLACEHOLDER == <<"{", "s", "e", "p", "_", "t", "o", "k", "e", "n", "}">>
\* the default highlight token '<hl>'
HL_DEFAULT == <<"<", "h", "l", ">">>
\* the default separation token '<sep>'
SEP_DEFAULT == <<"<", "s", "e", "p", ">">>

\* Python s[-n:]: the last n characters, the whole text when it is shorter
LastChars(s, n) ==
    IF Len(s) <= n THEN s ELSE SubSeq(s, Len(s) - n + 1, Len(s))

\* the _add_eos of one field, always appending (a missing suffix test)
AddEosFieldAlways(s) == s \o SP_EOS

\* the _add_eos of one field, appending the marker without the space
AddEosFieldNoSpace(s) ==
    IF LastChars(s, 4) = EOS THEN s ELSE s \o EOS

\* the _add_eos of one field: [s + " </s>", s][s[-4:] == '</s>']
AddEosField(s) ==
    IF LastChars(s, 4) = EOS THEN s ELSE s \o SP_EOS

\* Databuilder._add_eos
AddEos(r) ==
    [source_text |-> AddEosField(r.source_text),
     target_text |-> AddEosField(r.target_text)]

\* Python str.replace(old, new) for a non-empty old: a left-to-right scan
\* replacing every non-overlapping occurrence
RECURSIVE Replace(_, _, _)
Replace(s, old, new) ==
    IF Len(s) < Len(old) THEN s
    ELSE IF SubSeq(s, 1, Len(old)) = old
         THEN new \o Replace(SubSeq(s, Len(old) + 1, Len(s)), old, new)
         ELSE <<Head(s)>> \o Replace(Tail(s), old, new)

\* str.replace(old, new, 1): only the first occurrence (a slip)
RECURSIVE ReplaceFirst(_, _, _)
ReplaceFirst(s, old, new) ==
    IF Len(s) < Len(old) THEN s
    ELSE IF SubSeq(s, 1, Len(old)) = old
         THEN new \o SubSeq(s, Len(old) + 1, Len(s))
         ELSE <<Head(s)>> \o ReplaceFirst(Tail(s), old, new)

\* the replacement of one field of _replace_special_tokens
ReplaceField(s, old, new) == Replace(s, old, new)

\* _replace_special_tokens with the marker itself as the separation pattern
\* (a substitutable pattern that the appended marker contains)
ReplaceSpecialTokensMarkerPattern(r, hl, sep) ==
    [source_text |-> ReplaceField(r.source_text, HL_PLACEHOLDER, hl),
     target_text |-> ReplaceField(r.target_text, EOS, sep)]

\* Databuilder._replace_special_tokens
ReplaceSpecialTokens(r, hl, sep) ==
    [source_text |-> ReplaceField(r.source_text, HL_PLACEHOLDER, hl),
     target_text |-> ReplaceField(r.target_text, SEP_PLACEHOLDER, sep)]

(***************************************************************************)
(* The tokenizer (an external collaborator): batch_encode_plus with         *)
(* padding='max_length' and truncation=True.                                *)
(***************************************************************************)
PAD_ID == 0
EOS_ID == 1

Alphabet ==
    << "a", "<", "/", "s", ">", " ", "{", "}", "h", "l", "_", "t", "o", "k",
       "e", "n", "p" >>

\* the id of a character that is no part of a special token
CharId(c) == 100 + (CHOOSE i \in 1..Len(Alphabet) : Alphabet[i] = c)

\* the id of an added token
AddedId(tok) == 10 + Len(tok)

\* text s starts with the non-empty text tok
StartsWith(s, tok) ==
    /\ Len(tok) > 0
    /\ Len(s) >= Len(tok)
    /\ SubSeq(s, 1, Len(tok)) = tok

RECURSIVE Tokenize(_, _)
\* text to ids: the marker and the added tokens are atomic, every other
\* character is a token of its own
Tokenize(s, added) ==
    IF s = <<>> THEN <<>>
    ELSE IF StartsWith(s, EOS)
         THEN <<EOS_ID>> \o Tokenize(SubSeq(s, 5, Len(s)), added)
         ELSE IF \E tok \in added : StartsWith(s, tok)
              THEN LET tok == CHOOSE t \in added :
                                /\ StartsWith(s, t)
                                /\ \A u \in added : StartsWith(s, u) => Len(u) <= Len(t)
                   IN  <<AddedId(tok)>>
                         \o Tokenize(SubSeq(s, Len(tok) + 1, Len(s)), added)
              ELSE <<CharId(Head(s))>> \o Tokenize(Tail(s), added)

\* ids cut to max_length from the end, then padded with PAD_ID to max_length
PadTruncate(ids, max_length) ==
    [i \in 1..max_length |-> IF i <= Len(ids) THEN ids[i] ELSE PAD_ID]

\* 1 for the kept tokens, 0 for the padding
MaskOf(ids, max_length) ==
    [i \in 1..max_length |-> IF i <= Len(ids) THEN 1 ELSE 0]

\* tokenizer.batch_encode_plus(texts, max_length, padding, truncation)
BatchEncodePlus(texts, max_length, added) ==
    [input_ids |->
        [i \in 1..Len(texts) |-> PadTruncate(Tokenize(texts[i], added), max_length)],
     attention_mask |->
        [i \in 1..Len(texts) |-> MaskOf(Tokenize(texts[i], added), max_length)]]

\* batch[column]: the column of a batch of rows, as a list
Column(rows, column) == [i \in 1..Len(rows) |-> rows[i][column]]

\* _to_features taking the attention mask of the target encoding (a slip)
ToFeaturesTargetMask(rows, src_len, tgt_len, added) ==
    LET encoded_source ==
            BatchEncodePlus(Column(rows, "source_text"), src_len, added)
        encoded_target ==
            BatchEncodePlus(Column(rows, "target_text"), tgt_len, added)
    IN  [source_ids |-> encoded_source.input_ids,
         target_ids |-> encoded_target.input_ids,
         attention_mask |-> encoded_target.attention_mask]

\* Databuilder._to_features
ToFeatures(rows, src_len, tgt_len, added) ==
    LET encoded_source ==
            BatchEncodePlus(Column(rows, "source_text"), src_len, added)
        encoded_target ==
            BatchEncodePlus(Column(rows, "target_text"), tgt_len, added)
    IN  [source_ids |-> encoded_source.input_ids,
         target_ids |-> encoded_target.input_ids,
         attention_mask |-> encoded_source.attention_mask]

\* dataset.map(f): f applied to every row, in order
MapRows(rows, f(_)) == [i \in 1..Len(rows) |-> f(rows[i])]

\* the rows after the two row stages of Databuilder.preprocess
Normalized(rows, hl, sep) ==
    LET replace(r) == ReplaceSpecialTokens(r, hl, sep)
    IN  MapRows(MapRows(rows, AddEos), replace)

\* Databuilder.preprocess: _add_eos, _replace_special_tokens, _to_features
\* mapped over the dataset; the result holds the rewritten text columns and
\* the three encoded columns
Preprocess(rows, hl, sep, src_len, tgt_len, added) ==
    [rows |-> Normalized(rows, hl, sep),
     features |-> ToFeatures(Normalized(rows, hl, sep), src_len, tgt_len, added)]

(***************************************************************************)
(* databuilder.main.                                                        *)
(***************************************************************************)
\* DEFAULT_ARGS['source_column'], DEFAULT_ARGS['target_column']
SOURCE_COLUMN == "source_text"
TARGET_COLUMN == "target_text"
\* the extension '.pt'
PT_EXT == <<".", "p", "t">>
\* DEFAULT_ARGS['global_output_dir']: 'model'
GLOBAL_OUTPUT_DIR == <<"m", "o", "d", "e", "l">>

\* pd.read_csv(...).astype(str): the dataframe of a file
ReadCsv(csv) == [columns |-> csv.columns, rows |-> csv.rows]

\* all([source_column in df.columns, target_column in df.columns])
HasColumns(df) ==
    /\ SOURCE_COLUMN \in df.columns
    /\ TARGET_COLUMN \in df.columns

\* the extension test on train_file_path alone (a slip)
FilePathsOkTrainOnly(tp, vp) == LastChars(tp, 3) = PT_EXT

\* all([train_file_path[-3:] == '.pt', valid_file_path[-3:] == '.pt'])
FilePathsOk(tp, vp) ==
    /\ LastChars(tp, 3) = PT_EXT
    /\ LastChars(vp, 3) = PT_EXT

\* Dataset.from_pandas(df)
FromPandas(df) == [columns |-> df.columns, rows |-> df.rows]

\* the dataframe main builds the validation Dataset from: train_df
ValidationFrame(tdf, vdf) == tdf

\* dataset.set_format(type='torch', columns=[...]): what the saved dataset
\* yields
SetFormat(dataset) ==
    [source_ids |-> dataset.features.source_ids,
     target_ids |-> dataset.features.target_ids,
     attention_mask |-> dataset.features.attention_mask]

\* f with path p written
Written(f, p, content) ==
    [q \in DOMAIN f \cup {p} |-> IF q = p THEN content ELSE f[q]]

NoFiles == [q \in {} |-> NoValue]

(***************************************************************************)
(* Loss arithmetic: a loss is m * 2^e, kept canonical (m odd, or m = e = 0) *)
(* with m below 2^Precision; every operation rounds to nearest, ties to    *)
(* even, as tensor arithmetic does.                                        *)
(***************************************************************************)
RECURSIVE Pow2(_)
Pow2(n) == IF n <= 0 THEN 1 ELSE 2 * Pow2(n - 1)

RECURSIVE Canon(_, _)
\* m * 2^e in canonical form
Canon(m, e) ==
    IF m = 0 THEN [m |-> 0, e |-> 0]
    ELSE IF m % 2 = 0 THEN Canon(m \div 2, e + 1)
         ELSE [m |-> m, e |-> e]

RECURSIVE RoundScaled(_, _, _)
\* (n / d) * 2^e rounded to a Precision-bit mantissa
RoundScaled(n, d, e) ==
    IF n = 0 THEN Canon(0, 0)
    ELSE IF n >= Pow2(Precision) * d THEN RoundScaled(n, 2 * d, e + 1)
    ELSE IF n < Pow2(Precision - 1) * d THEN RoundScaled(2 * n, d, e - 1)
    ELSE LET q == n \div d
             r == n - q * d
             up == 2 * r > d \/ (2 * r = d /\ q % 2 = 1)
         IN  Canon(IF up THEN q + 1 ELSE q, e)

\* the loss holding the integer i
FromInt(i) == RoundScaled(i, 1, 0)

\* x / k for an integer k >= 1
FDiv(x, k) == RoundScaled(x.m, k, x.e)

\* x + y
FAdd(x, y) ==
    LET e == IF x.e < y.e THEN x.e ELSE y.e
    IN  RoundScaled(x.m * Pow2(x.e - e) + y.m * Pow2(y.e - e), 1, e)

\* x * 2^s, exact
FScale(x, s) == Canon(x.m, x.e + s)

RECURSIVE FSum(_)
\* the sum of a tensor, left to right
FSum(v) ==
    IF Len(v) = 1 THEN v[1]
    ELSE FAdd(FSum(SubSeq(v, 1, Len(v) - 1)), v[Len(v)])

\* tensor.mean()
Mean(v) == FDiv(FSum(v), Len(v))

(***************************************************************************)
(* Trainer._training_step.                                                  *)
(***************************************************************************)
\* the keys of the batch given to the step
InputKeys == {"input_ids", "attention_mask", "labels"}

\* number of occurrences of x in sequence q
Count(q, x) == Cardinality({ i \in 1..Len(q) : q[i] = x })

\* the reduction taking the first replica's loss (a slip)
ReduceLossFirst(self, v) == v[1]

\* if self.args.n_gpu > 1: loss = loss.mean()
ReduceLoss(self, v) ==
    IF self.n_gpu > 1 THEN Mean(v) ELSE v[1]

\* the accumulation scaling left out (a slip)
AccumulateNoDivide(self, loss) == loss

\* if self.args.gradient_accumulation_steps > 1: loss = loss / steps
Accumulate(self, loss) ==
    IF self.gradient_accumulation_steps > 1
    THEN FDiv(loss, self.gradient_accumulation_steps)
    ELSE loss

\* what the step calls when the optimizer is stepped inside it (a slip)
BackwardEventsWithOptimizer(self) ==
    IF self.fp16
    THEN <<"amp.scale_loss", "scaled_loss.backward", "optimizer.step",
           "zero_grad">>
    ELSE <<"loss.backward", "optimizer.step", "zero_grad">>

\* the calls of the precision-aware backward pass
BackwardEvents(self) ==
    IF self.fp16
    THEN <<"amp.scale_loss", "scaled_loss.backward">>
    ELSE <<"loss.backward">>

\* Trainer._training_step(model, inputs, optimizer): what it calls, what
\* backward is invoked on and what it returns.  v is outputs[0], the loss the
\* forward pass gives for the batch; forward_raises tells whether the forward
\* pass raises; amp is undefined when apex is not installed.
TrainingStep(self, v, scale_exp, forward_raises) ==
    LET kwargs == InputKeys \cup
                    (IF self.data_parallel THEN {"return_tuple"} ELSE {})
        before == <<"model.train", "to_device", "forward">>
        reduced == ReduceLoss(self, v)
        loss == Accumulate(self, reduced)
        math == (IF self.n_gpu > 1 THEN <<"mean">> ELSE <<>>)
                  \o (IF self.gradient_accumulation_steps > 1
                      THEN <<"divide">> ELSE <<>>)
    IN  IF forward_raises
        THEN [kwargs |-> kwargs, events |-> before, raised |-> TRUE,
              reduced |-> NoValue, backward_on |-> NoValue, returned |-> NoValue]
        ELSE IF self.fp16 /\ ~self.apex
        THEN [kwargs |-> kwargs, events |-> before \o math, raised |-> TRUE,
              reduced |-> reduced, backward_on |-> NoValue, returned |-> NoValue]
        ELSE [kwargs |-> kwargs,
              events |-> before \o math \o BackwardEvents(self),
              raised |-> FALSE,
              reduced |-> reduced,
              backward_on |-> IF self.fp16 THEN FScale(loss, scale_exp) ELSE loss,
              returned |-> loss]

\* the exact sum of two losses (no rounding: the sum of returned values)
ExactAdd(x, y) ==
    LET e == IF x.e < y.e THEN x.e ELSE y.e
    IN  Canon(x.m * Pow2(x.e - e) + y.m * Pow2(y.e - e), e)

(***************************************************************************)
(* Inputs: texts are concatenations of pieces that make the interesting    *)
(* cases happen: the marker, the marker cut short, the two placeholders.   *)
(***************************************************************************)
Pieces ==
    { <<"a">>, EOS, <<"<", "/", "s">>, <<">">>,
      HL_PLACEHOLDER, SEP_PLACEHOLDER }

RECURSIVE TextsOf(_)
\* the texts made of exactly n pieces
TextsOf(n) ==
    IF n = 0 THEN { <<>> }
    ELSE { t \o p : t \in TextsOf(n - 1), p \in Pieces }

\* the rows whose two fields hold at most MaxPieces pieces together
Rows ==
    UNION { { [source_text |-> s, target_text |-> t] :
                s \in TextsOf(ij[1]), t \in TextsOf(ij[2]) } :
            ij \in { p \in (0..MaxPieces) \X (0..MaxPieces) :
                        p[1] + p[2] <= MaxPieces } }

\* the configured <<highlight_token, separation_token>>: the defaults, and
\* an empty highlight token with the marker as separation token
TokenPairs == { <<HL_DEFAULT, SEP_DEFAULT>>, << <<>>, EOS >> }

(***************************************************************************)
(* Inputs of the batch pipeline, of main and of the trainer.                *)
(***************************************************************************)
RECURSIVE SeqsOf(_, _)
\* the sequences of exactly n elements of S
SeqsOf(S, n) ==
    IF n = 0 THEN { <<>> }
    ELSE { Append(q, x) : q \in SeqsOf(S, n - 1), x \in S }

BatchTexts ==
    { <<"a">>, <<"a", "a", " ">> \o EOS, HL_PLACEHOLDER \o SEP_PLACEHOLDER }

BatchRows ==
    { [source_text |-> s, target_text |-> t] : s \in BatchTexts, t \in BatchTexts }

Batches == UNION { SeqsOf(BatchRows, n) : n \in 1..MaxRows }

\* the rows of the csv files of a run
MainRows ==
    { [source_text |-> <<"a">>, target_text |-> <<"a">> \o SP_EOS],
      [source_text |-> HL_PLACEHOLDER \o <<"a", "a">>,
       target_text |-> SEP_PLACEHOLDER] }

ColumnSets ==
    { {SOURCE_COLUMN, TARGET_COLUMN}, {SOURCE_COLUMN}, {TARGET_COLUMN} }

\* a row with the columns of the file only
Restrict(r, columns) == [c \in columns |-> r[c]]

Csvs ==
    { [columns |-> columns,
       rows |-> [i \in 1..Len(q) |-> Restrict(q[i], columns)]] :
        columns \in ColumnSets,
        q \in UNION { SeqsOf(MainRows, n) : n \in 1..MaxRows } }

TrainPaths == { <<"t">> \o PT_EXT, <<"t">> \o PT_EXT \o <<"h">> }
ValidPaths == { <<"v">> \o PT_EXT, <<"p", "t">> }

\* label smoothing rates, in tenths: 0.0 and 0.1
LabelSmoothingRates == {0, 1}

\* Trainer(label_smoothing=..., args=training_args, ...): a model is
\* replicated only over more than one device
Trainers ==
    { t \in [label_smoothing : LabelSmoothingRates,
             n_gpu : 1..MaxReplicas,
             gradient_accumulation_steps : 1..MaxAccum,
             fp16 : BOOLEAN,
             apex : BOOLEAN,
             data_parallel : BOOLEAN] :
        /\ t.data_parallel => t.n_gpu > 1
        /\ ~t.fp16 => t.apex }

LossValues == { FromInt(i) : i \in 1..MaxLoss }

\* outputs[0] for a batch: one loss per replica under data parallelism, one
\* loss otherwise
Losses(self) ==
    IF self.data_parallel THEN SeqsOf(LossValues, self.n_gpu)
    ELSE SeqsOf(LossValues, 1)

(***************************************************************************)
(* What each part of the state holds while another part is exercised.      *)
(***************************************************************************)
RowIdle ==
    /\ row = [source_text |-> <<>>, target_text |-> <<>>]
    /\ row_in = row /\ row_eos = row /\ row_sub = row
    /\ stage = "idle"
    /\ eos_runs = 0

BatchIdle ==
    /\ batch = <<>> /\ batch_in = <<>>
    /\ encodings = NoValue
    /\ bstage = "idle"

\* the Databuilder attributes at their (scaled) defaults
DefaultBuilder ==
    /\ hl_token = HL_DEFAULT /\ sep_token = SEP_DEFAULT
    /\ source_max_length = MaxLength /\ target_max_length = 1

MainIdle ==
    /\ pc = "idle"
    /\ train_csv = NoValue /\ valid_csv = NoValue
    /\ train_file_path = <<>> /\ valid_file_path = <<>>
    /\ train_df = NoValue /\ valid_df = NoValue
    /\ train_dataset = NoValue /\ valid_dataset = NoValue
    /\ added_tokens = {}
    /\ preprocess_calls = 0
    /\ files = NoFiles

TrainIdle ==
    /\ trainer = NoValue
    /\ loss_scale_exp = 0
    /\ tstage = "idle"
    /\ last_call = NoValue
    /\ step_calls = 0 /\ backward_calls = 0
    /\ optimizer_steps = 0 /\ zero_grads = 0
    /\ micro_steps = 0
    /\ window_same = TRUE
    /\ window_sum = NoValue

(***************************************************************************)
(* The row pipeline: the callbacks dataset.map applies to each row.        *)
(***************************************************************************)
RowInit ==
    /\ BatchIdle /\ MainIdle /\ TrainIdle
    /\ source_max_length = 1 /\ target_max_length = 1
    /\ row \in Rows
    /\ row_in = row
    /\ row_eos = row
    /\ row_sub = row
    /\ \E tp \in TokenPairs : hl_token = tp[1] /\ sep_token = tp[2]
    /\ stage = "raw"
    /\ eos_runs = 0

\* dataset.map(self._add_eos) reaches the row
MapAddEos ==
    /\ stage \in {"raw", "eos"}
    /\ eos_runs < MaxRuns
    /\ row' = AddEos(row)
    /\ row_eos' = IF eos_runs = 0 THEN AddEos(row) ELSE row_eos
    /\ eos_runs' = eos_runs + 1
    /\ stage' = "eos"
    /\ UNCHANGED <<row_in, row_sub, hl_token, sep_token, batch_vars, main_vars, train_vars>>

\* dataset.map(self._replace_special_tokens) reaches the row
MapReplaceSpecialTokens ==
    /\ stage = "eos"
    /\ row' = ReplaceSpecialTokens(row, hl_token, sep_token)
    /\ row_sub' = row
    /\ stage' = "sub"
    /\ UNCHANGED <<row_in, row_eos, hl_token, sep_token, eos_runs, batch_vars, main_vars, train_vars>>

RowNext == MapAddEos \/ MapReplaceSpecialTokens

SpecRow == RowInit /\ [][RowNext]_vars

(***************************************************************************)
(* The batch pipeline.                                                      *)
(***************************************************************************)
BatchInit ==
    /\ RowIdle /\ MainIdle /\ TrainIdle
    /\ hl_token = HL_DEFAULT /\ sep_token = SEP_DEFAULT
    /\ source_max_length \in 1..MaxLength
    /\ target_max_length \in 1..MaxLength
    /\ batch \in Batches
    /\ batch_in = <<>>
    /\ encodings = NoValue
    /\ bstage = "raw"

\* dataset.map(self._to_features, batched=True) on the rows as they are
CallToFeatures ==
    /\ bstage = "raw"
    /\ batch_in' = batch
    /\ encodings' = ToFeatures(batch, source_max_length, target_max_length,
                               {hl_token, sep_token})
    /\ bstage' = "encoded"
    /\ UNCHANGED <<row_vars, main_vars, train_vars,
                   source_max_length, target_max_length, batch>>

\* preprocessor.preprocess(dataset)
CallPreprocess ==
    /\ bstage = "raw"
    /\ LET dataset == Preprocess(batch, hl_token, sep_token, source_max_length,
                               target_max_length, {hl_token, sep_token})
       IN  /\ batch' = dataset.rows
           /\ batch_in' = dataset.rows
           /\ encodings' = dataset.features
    /\ bstage' = "encoded"
    /\ UNCHANGED <<row_vars, main_vars, train_vars,
                   source_max_length, target_max_length>>

BatchNext == CallToFeatures \/ CallPreprocess

SpecBatch == BatchInit /\ [][BatchNext]_vars

(***************************************************************************)
(* One run of databuilder.main, statement by statement.                     *)
(***************************************************************************)
Init ==
    /\ RowIdle /\ BatchIdle /\ TrainIdle /\ DefaultBuilder
    /\ pc = "start"
    /\ train_csv \in Csvs
    /\ valid_csv \in Csvs
    /\ train_file_path \in TrainPaths
    /\ valid_file_path \in ValidPaths
    /\ train_df = NoValue /\ valid_df = NoValue
    /\ train_dataset = NoValue /\ valid_dataset = NoValue
    /\ added_tokens = {}
    /\ preprocess_calls = 0
    /\ files = NoFiles

main_inputs == <<train_csv, valid_csv, train_file_path, valid_file_path>>

\* train_df = pd.read_csv(...); valid_df = pd.read_csv(...)
LoadDataframes ==
    /\ pc = "start"
    /\ train_df' = ReadCsv(train_csv)
    /\ valid_df' = ReadCsv(valid_csv)
    /\ pc' = "loaded"
    /\ UNCHANGED <<row_vars, batch_vars, train_vars, main_inputs, train_dataset,
                   valid_dataset, added_tokens, preprocess_calls, files>>

\* assert all([source_column in train_df.columns, target_column in ...])
AssertTrainColumns ==
    /\ pc = "loaded"
    /\ pc' = IF HasColumns(train_df) THEN "train_columns_ok" ELSE "failed"
    /\ UNCHANGED <<row_vars, batch_vars, train_vars, main_inputs, train_df,
                   valid_df, train_dataset, valid_dataset, added_tokens,
                   preprocess_calls, files>>

\* assert all([source_column in valid_df.columns, target_column in ...])
AssertValidColumns ==
    /\ pc = "train_columns_ok"
    /\ pc' = IF HasColumns(valid_df) THEN "valid_columns_ok" ELSE "failed"
    /\ UNCHANGED <<row_vars, batch_vars, train_vars, main_inputs, train_df,
                   valid_df, train_dataset, valid_dataset, added_tokens,
                   preprocess_calls, files>>

\* assert all([train_file_path[-3:] == '.pt', valid_file_path[-3:] == '.pt'])
AssertFilePaths ==
    /\ pc = "valid_columns_ok"
    /\ pc' = IF FilePathsOk(train_file_path, valid_file_path)
             THEN "paths_ok" ELSE "failed"
    /\ UNCHANGED <<row_vars, batch_vars, train_vars, main_inputs, train_df,
                   valid_df, train_dataset, valid_dataset, added_tokens,
                   preprocess_calls, files>>

\* train_dataset = Dataset.from_pandas(train_df)
\* valid_dataset = Dataset.from_pandas(train_df)
BuildDatasets ==
    /\ pc = "paths_ok"
    /\ train_dataset' = FromPandas(train_df)
    /\ valid_dataset' = FromPandas(ValidationFrame(train_df, valid_df))
    /\ pc' = "datasets"
    /\ UNCHANGED <<row_vars, batch_vars, train_vars, main_inputs, train_df,
                   valid_df, added_tokens, preprocess_calls, files>>

\* tokenizer = MT5Tokenizer.from_pretrained(...); tokenizer.add_tokens([...]);
\* preprocessor = Databuilder(tokenizer, db_args)
LoadTokenizer ==
    /\ pc = "datasets"
    /\ added_tokens' = added_tokens \cup {hl_token, sep_token}
    /\ pc' = "tokenizer"
    /\ UNCHANGED <<row_vars, batch_vars, train_vars, main_inputs, train_df,
                   valid_df, train_dataset, valid_dataset, preprocess_calls,
                   files>>

\* the dataset after preprocessor.preprocess(dataset)
Preprocessed(dataset) ==
    LET out == Preprocess(dataset.rows, hl_token, sep_token, source_max_length,
                          target_max_length, added_tokens)
    IN  [columns |-> dataset.columns
                        \cup {"source_ids", "target_ids", "attention_mask"},
         rows |-> out.rows,
         features |-> out.features]

\* train_dataset = preprocessor.preprocess(dataset=train_dataset)
PreprocessTrain ==
    /\ pc = "tokenizer"
    /\ train_dataset' = Preprocessed(train_dataset)
    /\ preprocess_calls' = preprocess_calls + 1
    /\ pc' = "train_encoded"
    /\ UNCHANGED <<row_vars, batch_vars, train_vars, main_inputs, train_df,
                   valid_df, valid_dataset, added_tokens, files>>

\* valid_dataset = preprocessor.preprocess(dataset=valid_dataset)
PreprocessValid ==
    /\ pc = "train_encoded"
    /\ valid_dataset' = Preprocessed(valid_dataset)
    /\ preprocess_calls' = preprocess_calls + 1
    /\ pc' = "valid_encoded"
    /\ UNCHANGED <<row_vars, batch_vars, train_vars, main_inputs, train_df,
                   valid_df, train_dataset, added_tokens, files>>

\* train_dataset.set_format(...); valid_dataset.set_format(...);
\* torch.save(train_dataset, db_args.train_file_path)
SaveTrain ==
    /\ pc = "valid_encoded"
    /\ files' = Written(files, train_file_path, SetFormat(train_dataset))
    /\ pc' = "train_saved"
    /\ UNCHANGED <<row_vars, batch_vars, train_vars, main_inputs, train_df,
                   valid_df, train_dataset, valid_dataset, added_tokens,
                   preprocess_calls>>

\* torch.save(valid_dataset, db_args.valid_file_path)
SaveValid ==
    /\ pc = "train_saved"
    /\ files' = Written(files, valid_file_path, SetFormat(valid_dataset))
    /\ pc' = "valid_saved"
    /\ UNCHANGED <<row_vars, batch_vars, train_vars, main_inputs, train_df,
                   valid_df, train_dataset, valid_dataset, added_tokens,
                   preprocess_calls>>

\* tokenizer.save_pretrained(db_args.global_output_dir)
SaveTokenizer ==
    /\ pc = "valid_saved"
    /\ files' = Written(files, GLOBAL_OUTPUT_DIR, added_tokens)
    /\ pc' = "done"
    /\ UNCHANGED <<row_vars, batch_vars, train_vars, main_inputs, train_df,
                   valid_df, train_dataset, valid_dataset, added_tokens,
                   preprocess_calls>>

Next ==
    \/ LoadDataframes
    \/ AssertTrainColumns
    \/ AssertValidColumns
    \/ AssertFilePaths
    \/ BuildDatasets
    \/ LoadTokenizer
    \/ PreprocessTrain
    \/ PreprocessValid
    \/ SaveTrain
    \/ SaveValid
    \/ SaveTokenizer

Spec == Init /\ [][Next]_vars

(***************************************************************************)
(* The training loop: the external driver calls _training_step once per    *)
(* batch and steps the optimizer every gradient_accumulation_steps calls.  *)
(***************************************************************************)
TrainInit ==
    /\ RowIdle /\ BatchIdle /\ MainIdle /\ DefaultBuilder
    /\ trainer \in Trainers
    /\ loss_scale_exp \in (IF trainer.fp16 /\ trainer.apex THEN {0, 1} ELSE {0})
    /\ tstage = "training"
    /\ last_call = NoValue
    /\ step_calls = 0 /\ backward_calls = 0
    /\ optimizer_steps = 0 /\ zero_grads = 0
    /\ micro_steps = 0
    /\ window_same = TRUE
    /\ window_sum = NoValue

\* one call of trainer._training_step(model, inputs, optimizer)
CallTrainingStep ==
    /\ tstage = "training"
    /\ step_calls < MaxSteps
    /\ micro_steps < trainer.gradient_accumulation_steps
    /\ \E v \in Losses(trainer), forward_raises \in BOOLEAN :
       \E out \in {TrainingStep(trainer, v, loss_scale_exp, forward_raises)} :
        LET same == micro_steps = 0 \/ (window_same /\ v = last_call.batch)
        IN  /\ last_call' = [batch |-> v, forward_raises |-> forward_raises,
                             out |-> out]
            /\ step_calls' = step_calls + 1
            /\ backward_calls' = backward_calls
                    + Count(out.events, "loss.backward")
                    + Count(out.events, "scaled_loss.backward")
            /\ optimizer_steps' = optimizer_steps
                    + Count(out.events, "optimizer.step")
            /\ zero_grads' = zero_grads + Count(out.events, "zero_grad")
            /\ IF out.raised
               THEN /\ tstage' = "aborted"
                    /\ UNCHANGED <<micro_steps, window_same, window_sum>>
               ELSE /\ tstage' = tstage
                    /\ micro_steps' = micro_steps + 1
                    /\ window_same' = same
                    /\ window_sum' =
                         IF ~same THEN NoValue
                         ELSE IF micro_steps = 0 THEN out.returned
                         ELSE ExactAdd(window_sum, out.returned)
    /\ UNCHANGED <<row_vars, batch_vars, main_vars, trainer, loss_scale_exp>>

\* the driver, after gradient_accumulation_steps calls: optimizer.step() and
\* model.zero_grad()
DriverOptimizerStep ==
    /\ tstage = "training"
    /\ micro_steps = trainer.gradient_accumulation_steps
    /\ optimizer_steps' = optimizer_steps + 1
    /\ zero_grads' = zero_grads + 1
    /\ micro_steps' = 0
    /\ window_same' = TRUE
    /\ window_sum' = NoValue
    /\ UNCHANGED <<row_vars, batch_vars, main_vars, trainer, loss_scale_exp,
                   tstage, last_call, step_calls, backward_calls>>

TrainNext == CallTrainingStep \/ DriverOptimizerStep

SpecTrain == TrainInit /\ [][TrainNext]_vars

(***************************************************************************)
(* Claims about the row callbacks.                                         *)
(***************************************************************************)
Fields == {"source_text", "target_text"}

\* s ends with the four characters of the marker, read position by position
EndsWithMarker(s) ==
    /\ Len(s) >= 4
    /\ s[Len(s) - 3] = "<" /\ s[Len(s) - 2] = "/"
    /\ s[Len(s) - 1] = "s" /\ s[Len(s)] = ">"

\* t is s followed by one space and one marker, read position by position
IsWithMarkerAppended(s, t) ==
    /\ Len(t) = Len(s) + 5
    /\ \A i \in 1..Len(s) : t[i] = s[i]
    /\ t[Len(s) + 1] = " "
    /\ t[Len(s) + 2] = "<" /\ t[Len(s) + 3] = "/"
    /\ t[Len(s) + 4] = "s" /\ t[Len(s) + 5] = ">"

\* the positions of s where an occurrence of pat starts
Occ(s, pat) ==
    { i \in 1..(Len(s) - Len(pat) + 1) : SubSeq(s, i, i + Len(pat) - 1) = pat }

\* C1: after one _add_eos, each field is unchanged when its last 4 characters
\* are the marker, and is the field followed by ' </s>' otherwise; a field
\* shorter than 4 characters always gets ' </s>' appended.
C1_AddEos ==
    (stage = "eos" /\ eos_runs = 1) =>
        \A f \in Fields :
            /\ EndsWithMarker(row_in[f]) => row[f] = row_in[f]
            /\ ~EndsWithMarker(row_in[f]) => IsWithMarkerAppended(row_in[f], row[f])
            /\ Len(row_in[f]) < 4 => IsWithMarkerAppended(row_in[f], row[f])

\* C1 witness: one _add_eos left a marked source alone and appended the
\* marker to a target shorter than 4 characters.
C1_Witness ==
    /\ stage = "eos" /\ eos_runs = 1
    /\ EndsWithMarker(row_in.source_text) /\ row.source_text = row_in.source_text
    /\ Len(row_in.target_text) < 4 /\ Len(row_in.target_text) > 0
    /\ IsWithMarkerAppended(row_in.target_text, row.target_text)

\* C2: _add_eos is idempotent: mapped again, it leaves the row as the first
\* run left it, and each field holds exactly one more marker than the input
\* when the input did not end with one, and as many otherwise.
C2_AddEosIdempotent ==
    (stage = "eos" /\ eos_runs >= 1) =>
        /\ row = row_eos
        /\ \A f \in Fields :
            Cardinality(Occ(row[f], EOS)) =
                Cardinality(Occ(row_in[f], EOS))
                    + (IF EndsWithMarker(row_in[f]) THEN 0 ELSE 1)

\* C2 witness: _add_eos ran more than once over a row with one marked and
\* one unmarked field.
C2_Witness ==
    /\ stage = "eos" /\ eos_runs >= 2
    /\ EndsWithMarker(row_in.source_text)
    /\ ~EndsWithMarker(row_in.target_text)
    /\ row.target_text = row_in.target_text \o SP_EOS

RECURSIVE SubstFrom(_, _, _, _)
\* s from position i on, with every occurrence of old (a pattern that cannot
\* overlap itself) replaced by new: decided position by position from the
\* set of occurrences
SubstFrom(s, old, new, i) ==
    IF i > Len(s) THEN <<>>
    ELSE IF i \in Occ(s, old)
         THEN new \o SubstFrom(s, old, new, i + 1)
         ELSE IF \E j \in Occ(s, old) : j < i /\ i <= j + Len(old) - 1
              THEN SubstFrom(s, old, new, i + 1)
              ELSE <<s[i]>> \o SubstFrom(s, old, new, i + 1)

\* C3: _replace_special_tokens replaces every '{hl_token}' of the source by
\* highlight_token and every '{sep_token}' of the target by separation_token,
\* leaves a field without its placeholder unchanged, and alters nothing else.
C3_ReplaceSpecialTokens ==
    stage = "sub" =>
        /\ row.source_text = SubstFrom(row_sub.source_text, HL_PLACEHOLDER, hl_token, 1)
        /\ row.target_text = SubstFrom(row_sub.target_text, SEP_PLACEHOLDER, sep_token, 1)
        /\ Occ(row_sub.source_text, HL_PLACEHOLDER) = {}
              => row.source_text = row_sub.source_text
        /\ Occ(row_sub.target_text, SEP_PLACEHOLDER) = {}
              => row.target_text = row_sub.target_text

\* C3 witness: a source with two highlight placeholders and a target with a
\* separation placeholder went through the substitution.
C3_Witness ==
    /\ stage = "sub"
    /\ Cardinality(Occ(row_sub.source_text, HL_PLACEHOLDER)) = 2
    /\ Cardinality(Occ(row_sub.target_text, SEP_PLACEHOLDER)) = 1
    /\ Occ(row.source_text, HL_PLACEHOLDER) = {}

\* the occurrences of pat in s that reach into the last four positions of s
ReachingTail(s, pat) ==
    { i \in Occ(s, pat) : i + Len(pat) - 1 >= Len(s) - 3 }

\* C11: after _add_eos and then _replace_special_tokens, whatever the row and
\* the configured highlight_token and separation_token, each field handed to
\* tokenization is non-empty and ends with the marker '</s>': the field
\* ended with it before the substitution, no placeholder occurrence reaches
\* into its last four characters, and they are the same four afterwards.
C11_MarkerSurvives ==
    stage = "sub" =>
        \A f \in Fields :
            /\ eos_runs >= 1
            /\ EndsWithMarker(row_sub[f])
            /\ ReachingTail(row_sub[f], HL_PLACEHOLDER) = {}
            /\ ReachingTail(row_sub[f], SEP_PLACEHOLDER) = {}
            /\ Len(row[f]) > 0
            /\ EndsWithMarker(row[f])
            /\ LastChars(row[f], 4) = LastChars(row_sub[f], 4)

\* C11 witness: with an empty highlight_token and the marker as
\* separation_token, a source that is one placeholder came out as ' </s>'
\* and a target that is a placeholder followed by the marker came out as two
\* markers.
C11_Witness ==
    /\ stage = "sub"
    /\ hl_token = <<>> /\ sep_token = EOS
    /\ row_in.source_text = HL_PLACEHOLDER
    /\ row_in.target_text = SEP_PLACEHOLDER \o EOS
    /\ row.source_text = SP_EOS
    /\ row.target_text = EOS \o EOS

\* a text encoded alone
EncodeOne(text, max_length) ==
    BatchEncodePlus(<<text>>, max_length, {hl_token, sep_token})

\* C10: the encoded output of a batch of n rows has n source_ids, n target_ids
\* and n attention_mask entries in row order; source_ids[i] and
\* attention_mask[i] have length source_max_length and target_ids[i] length
\* target_max_length; attention_mask[i] is the mask of row i's source
\* encoding; an over-long text is cut to the max length, not dropped.
C10_ShapeAndAlignment ==
    bstage = "encoded" =>
        LET n == Len(batch_in) IN
        /\ Len(encodings.source_ids) = n
        /\ Len(encodings.target_ids) = n
        /\ Len(encodings.attention_mask) = n
        /\ \A i \in 1..n :
            LET src == EncodeOne(batch_in[i].source_text, source_max_length)
                tgt == EncodeOne(batch_in[i].target_text, target_max_length)
                src_tokens == Tokenize(batch_in[i].source_text, {hl_token, sep_token})
            IN  /\ Len(encodings.source_ids[i]) = source_max_length
                /\ Len(encodings.attention_mask[i]) = source_max_length
                /\ Len(encodings.target_ids[i]) = target_max_length
                /\ encodings.source_ids[i] = src.input_ids[1]
                /\ encodings.target_ids[i] = tgt.input_ids[1]
                /\ encodings.attention_mask[i] = src.attention_mask[1]
                /\ Len(src_tokens) > source_max_length =>
                      encodings.source_ids[i] = SubSeq(src_tokens, 1, source_max_length)

\* C10 witness: a batch of two different rows was encoded, the first source
\* over-long and cut, the second source padded, with max lengths that differ.
C10_Witness ==
    /\ bstage = "encoded"
    /\ Len(batch_in) = 2
    /\ batch_in[1] # batch_in[2]
    /\ source_max_length # target_max_length
    /\ Len(Tokenize(batch_in[1].source_text, {hl_token, sep_token})) > source_max_length
    /\ encodings.attention_mask[2][source_max_length] = 0
    /\ encodings.attention_mask[1] # encodings.attention_mask[2]

(***************************************************************************)
(* Claims about databuilder.main.                                           *)
(***************************************************************************)
\* path p ends with '.pt', read position by position
EndsWithPt(p) ==
    /\ Len(p) >= 3
    /\ p[Len(p) - 2] = "." /\ p[Len(p) - 1] = "p" /\ p[Len(p)] = "t"

\* a column is missing from the file
ColumnMissing(csv) ==
    \E c \in {"source_text", "target_text"} : c \notin csv.columns

\* the configuration the run must refuse
BadConfiguration ==
    \/ ColumnMissing(train_csv)
    \/ ColumnMissing(valid_csv)
    \/ ~EndsWithPt(train_file_path)
    \/ ~EndsWithPt(valid_file_path)

\* C4: with a source or target column missing from the training or the
\* validation input, or a train_file_path / valid_file_path not ending in
\* '.pt', main fails before any encoding work: the vocabulary is never
\* changed, preprocess is never called and no file is ever written.
C4_FailsBeforeEncoding ==
    (pc # "idle" /\ BadConfiguration) =>
        /\ pc \in {"start", "loaded", "train_columns_ok", "valid_columns_ok",
                   "failed"}
        /\ added_tokens = {}
        /\ preprocess_calls = 0
        /\ train_dataset = NoValue /\ valid_dataset = NoValue
        /\ DOMAIN files = {}

\* C4 witness: the run failed on the last check, the extension of
\* valid_file_path, every column being there.
C4_Witness ==
    /\ pc = "failed"
    /\ ~ColumnMissing(train_csv) /\ ~ColumnMissing(valid_csv)
    /\ EndsWithPt(train_file_path)
    /\ ~EndsWithPt(valid_file_path)

\* the encoding of the rows of a file
EncodingOf(csv) ==
    ToFeatures(Normalized(csv.rows, hl_token, sep_token), source_max_length,
               target_max_length, {hl_token, sep_token})

\* C5: the dataset persisted at valid_file_path is the encoding of the rows
\* of the validation input, not of the training rows, whenever the two
\* inputs differ.
C5_ValidationFromValidationRows ==
    (pc = "done" /\ train_csv # valid_csv) =>
        /\ files[valid_file_path] = EncodingOf(valid_csv)
        /\ EncodingOf(valid_csv) # EncodingOf(train_csv)
              => files[valid_file_path] # EncodingOf(train_csv)

(***************************************************************************)
(* Claims about Trainer._training_step.                                     *)
(***************************************************************************)
\* the last call of _training_step returned
Returned == last_call # NoValue /\ ~last_call.out.raised

\* what the last call would have done under trainer t
Rerun(t) ==
    TrainingStep(t, last_call.batch, loss_scale_exp, last_call.forward_raises)

\* the value one step with accumulation factor 1 returns for the last batch
ReturnedWithFactorOne ==
    Rerun([trainer EXCEPT !.gradient_accumulation_steps = 1]).returned

\* k * x, exact
Times(k, x) == Canon(k * x.m, x.e)

\* |x - y| <= y / 2^bits, exact
Within(x, y, bits) ==
    LET e == IF x.e < y.e THEN x.e ELSE y.e
        a == x.m * Pow2(x.e - e)
        b == y.m * Pow2(y.e - e)
        d == IF a < b THEN b - a ELSE a - b
    IN  d * Pow2(bits) <= b

\* the position of the first x in sequence q, 0 when there is none
IndexOf(q, x) ==
    IF \E i \in 1..Len(q) : q[i] = x
    THEN CHOOSE i \in 1..Len(q) : q[i] = x /\ \A j \in 1..(i - 1) : q[j] # x
    ELSE 0

\* C6: the configured label smoothing rate reaches the computation of the
\* loss: a trainer differing only in label_smoothing does not run an
\* identical training step on the same model and batch.
C6_LabelSmoothingThreaded ==
    last_call # NoValue =>
        \A ls \in LabelSmoothingRates \ {trainer.label_smoothing} :
            Rerun([trainer EXCEPT !.label_smoothing = ls]) # last_call.out

\* C7 as stated: backward is invoked on (through the scaler under fp16), and
\* the step returns, exactly L / k, and k returned values on identical
\* batches sum exactly to the value one step with accumulation factor 1
\* returns.
C7_AccumulationExact ==
    Returned =>
        LET k == trainer.gradient_accumulation_steps
            r == last_call.out.returned
        IN  /\ Times(k, r) = ReturnedWithFactorOne
            /\ last_call.out.backward_on =
                  (IF trainer.fp16 THEN Times(Pow2(loss_scale_exp), r) ELSE r)
            /\ (micro_steps = k /\ window_same)
                  => window_sum = ReturnedWithFactorOne

\* C7 amended: the step returns L / k rounded to the precision of the loss
\* (L itself when k = 1, exactly L / k when k is 1, 2 or 4); backward is
\* invoked on that value (through the scaler under fp16); k returned values
\* on identical batches sum to the value one step with accumulation factor 1
\* returns within one unit roundoff of the loss precision, not exactly.
C7_AccumulationLaw ==
    Returned =>
        LET k == trainer.gradient_accumulation_steps
            r == last_call.out.returned
            L == ReturnedWithFactorOne
        IN  /\ k = 1 => r = L
            /\ Within(Times(k, r), L, Precision)
            /\ k \in {1, 2, 4} => Times(k, r) = L
            /\ last_call.out.backward_on =
                  (IF trainer.fp16 THEN Times(Pow2(loss_scale_exp), r) ELSE r)
            /\ (micro_steps = k /\ window_same) =>
                  /\ window_sum = Times(k, r)
                  /\ Within(window_sum, L, Precision)

\* C7 witness: three steps with accumulation factor 3 ran on identical
\* batches, and what they returned does not sum exactly to the loss.
C7_Witness ==
    /\ Returned
    /\ trainer.gradient_accumulation_steps = 3
    /\ micro_steps = 3 /\ window_same
    /\ window_sum # ReturnedWithFactorOne

RECURSIVE ExactSum(_)
\* l1 + ... + ln, exact
ExactSum(v) ==
    IF Len(v) = 1 THEN v[1]
    ELSE ExactAdd(ExactSum(SubSeq(v, 1, Len(v) - 1)), v[Len(v)])

\* C8: with n_gpu > 1 the per-replica losses are reduced to their mean
\* (l1 + ... + ln) / n, before the accumulation division and before the
\* backward pass; with one replica the loss is passed on unreduced.
C8_ReductionLaw ==
    (last_call # NoValue /\ ~last_call.forward_raises) =>
        LET v == last_call.batch
            k == trainer.gradient_accumulation_steps
            out == last_call.out
            ev == out.events
        IN  /\ trainer.n_gpu > 1 =>
                /\ out.reduced = Mean(v)
                /\ Within(Times(Len(v), out.reduced), ExactSum(v), Precision - 2)
                /\ (\A i \in 1..Len(v) : v[i] = v[1]) => out.reduced = v[1]
                /\ IndexOf(ev, "mean") > IndexOf(ev, "forward")
                /\ "divide" \in { ev[i] : i \in 1..Len(ev) }
                      => IndexOf(ev, "mean") < IndexOf(ev, "divide")
            /\ trainer.n_gpu <= 1 =>
                /\ Len(v) = 1 /\ out.reduced = v[1]
                /\ IndexOf(ev, "mean") = 0
            /\ ~out.raised =>
                /\ out.returned = (IF k > 1 THEN FDiv(out.reduced, k)
                                   ELSE out.reduced)
                /\ trainer.n_gpu > 1 =>
                      \A i \in 1..Len(ev) :
                          ev[i] \in {"loss.backward", "scaled_loss.backward"}
                              => IndexOf(ev, "mean") < i

\* C8 witness: two replicas gave different losses, which were reduced and
\* then divided for accumulation.
C8_Witness ==
    /\ Returned
    /\ trainer.n_gpu = 2 /\ trainer.data_parallel
    /\ trainer.gradient_accumulation_steps > 1
    /\ last_call.batch[1] # last_call.batch[2]
    /\ last_call.out.reduced # last_call.batch[1]
    /\ last_call.out.reduced # last_call.batch[2]

\* the backward calls among the events of a step
BackwardIndexes(ev) ==
    { i \in 1..Len(ev) : ev[i] \in {"loss.backward", "scaled_loss.backward"} }

\* C9: a successful call of the training step invokes backward exactly once,
\* after the forward pass and last before returning: on the scaled loss in
\* the scaler's scope under fp16, on the accumulation-scaled loss otherwise;
\* no call steps the optimizer or zeroes the gradients.
C9_BackwardOnceNoOptimizer ==
    [][ step_calls' # step_calls =>
          LET out == last_call'.out
              ev == out.events
          IN  /\ optimizer_steps' = optimizer_steps
              /\ zero_grads' = zero_grads
              /\ \A i \in 1..Len(ev) : ev[i] \notin {"optimizer.step", "zero_grad"}
              /\ out.raised => backward_calls' = backward_calls
              /\ ~out.raised =>
                    /\ backward_calls' = backward_calls + 1
                    /\ BackwardIndexes(ev) = {Len(ev)}
                    /\ IndexOf(ev, "forward") \in 1..(Len(ev) - 1)
                    /\ trainer.fp16 =>
                          /\ ev[Len(ev)] = "scaled_loss.backward"
                          /\ ev[Len(ev) - 1] = "amp.scale_loss"
                          /\ out.backward_on =
                                Times(Pow2(loss_scale_exp), out.returned)
                    /\ ~trainer.fp16 =>
                          /\ ev[Len(ev)] = "loss.backward"
                          /\ out.backward_on = out.returned
      ]_vars

\* C9 witness: a step under fp16 returned after the driver had stepped the
\* optimizer once, and the optimizer was stepped that once only.
C9_Witness ==
    /\ Returned
    /\ trainer.fp16
    /\ step_calls >= 2 /\ backward_calls = step_calls
    /\ micro_steps >= 1
    /\ optimizer_steps = 1 /\ zero_grads = 1

====
